---- MODULE Spec2Model ----
(***************************************************************************)
(* Model of ultrasonics/official_plugins/up_csv_import.py                  *)
(*                                                                         *)
(* Python strings are sequences of one-character strings, so that          *)
(* strip(), lower(), split(";"), basename, splitext and the ordering used  *)
(* by sorted() are computed and not assumed.  A csv.reader row is a        *)
(* sequence of cells; a dict is a function whose DOMAIN is its key set.    *)
(***************************************************************************)
EXTENDS Integers, Sequences, FiniteSets, TLC

VARIABLES
    pc,           \* position inside run() / the function under call
    settings,     \* run(): settings_dict
    field_names,  \* run(): field_names
    path_kind,    \* what settings_dict["path"] points at
    fs,           \* regular files below the configured folder (relative paths)
    csv_paths,    \* run(): csv_paths
    file_idx,     \* run(): position of the for loop over csv_paths
    fieldnames,   \* csv.DictReader.fieldnames of the file being read
    header_map,   \* header_map of the file being read
    consumed,     \* rows the csv reader has yielded from the file being read
    tracks,       \* _read_one_csv_as_playlist(): tracks
    playlists,    \* run(): playlists (insertion-ordered dict, Mode B)
    songs_dict,   \* run(): songs_dict
    warnings,     \* what run() passed to log.warning
    nread,        \* number of rows read during the run
    call,         \* arguments of the function under call (function-level specs)
    ret           \* its return value

vars == <<pc, settings, field_names, path_kind, fs, csv_paths, file_idx,
          fieldnames, header_map, consumed, tracks, playlists, songs_dict,
          warnings, nread, call, ret>>

-----------------------------------------------------------------------------
(* Bounds *)

MaxRows == 3
MaxFolderRows == 2
MaxFiles == 2
MaxCellLen == 3
MaxHeaders == 2
MaxDepth == 3

-----------------------------------------------------------------------------
(* Python values *)

Empty == << >>
None == <<"<None>">>
NoTrack == [none |-> TRUE]

Range(s) == {s[i] : i \in 1..Len(s)}

Max(S) == CHOOSE x \in S : \A y \in S : y <= x

Min(S) == CHOOSE x \in S : \A y \in S : x <= y

Whitespace == {" ", "\t"}

UpperLetters == <<"A", "B", "C", "D", "E", "F", "G", "H", "I", "J", "K", "L", "M",
                  "N", "O", "P", "Q", "R", "S", "T", "U", "V", "W", "X", "Y", "Z">>

LowerLetters == <<"a", "b", "c", "d", "e", "f", "g", "h", "i", "j", "k", "l", "m",
                  "n", "o", "p", "q", "r", "s", "t", "u", "v", "w", "x", "y", "z">>

LowerOf == [c \in Range(UpperLetters) |->
               LowerLetters[CHOOSE i \in 1..Len(UpperLetters) : UpperLetters[i] = c]]

\* str.lower() on one character (ASCII letters; other characters are unchanged)
LowerChar(c) == IF c \in DOMAIN LowerOf THEN LowerOf[c] ELSE c

Lower(s) == [i \in 1..Len(s) |-> LowerChar(s[i])]

\* str.strip()
Strip(s) ==
    LET keep == {i \in 1..Len(s) : s[i] \notin Whitespace}
    IN  IF keep = {} THEN Empty ELSE SubSeq(s, Min(keep), Max(keep))

\* str.split(sep): the pieces between separators, empty pieces included
RECURSIVE SplitFrom(_, _, _, _)
SplitFrom(s, sep, i, cur) ==
    IF i > Len(s) THEN <<cur>>
    ELSE IF s[i] = sep THEN <<cur>> \o SplitFrom(s, sep, i + 1, Empty)
    ELSE SplitFrom(s, sep, i + 1, Append(cur, s[i]))

Split(s, sep) == SplitFrom(s, sep, 1, Empty)

\* [f(x) for x in s if p(x)] with f = strip and p = "x.strip() is truthy"
RECURSIVE StripNonBlank(_)
StripNonBlank(pieces) ==
    IF pieces = << >> THEN << >>
    ELSE IF Strip(Head(pieces)) = Empty THEN StripNonBlank(Tail(pieces))
    ELSE <<Strip(Head(pieces))>> \o StripNonBlank(Tail(pieces))

\* "v or ''"
OrEmpty(v) == IF v = None THEN Empty ELSE v

\* dict.get(key) on a dict modelled as a function
DictGet(d, key) == IF key \in DOMAIN d THEN d[key] ELSE None

\* dict.get(key, default)
DictGetDefault(d, key, default) == IF key \in DOMAIN d THEN d[key] ELSE default

\* a dict literal / dict(zip(keys, values)): a later pair with the same key
\* replaces the earlier one
DictOfPairs(keys, values) ==
    [k \in {keys[i] : i \in 1..Min({Len(keys), Len(values)})} |->
        values[Max({i \in 1..Min({Len(keys), Len(values)}) : keys[i] = k})]]

-----------------------------------------------------------------------------
(* csv.DictReader *)

\* One row of csv.DictReader: dict(zip(fieldnames, row)); a long row keeps its
\* surplus cells under restkey (None), a short row gets restval (None) for
\* every field name from position len(row) on.
DictReaderRow(names, row) ==
    LET zipped == DictOfPairs(names, row)
        short  == {names[i] : i \in (Len(row) + 1)..Len(names)}
        rest   == IF Len(names) < Len(row) THEN {None} ELSE {}
    IN  [k \in DOMAIN zipped \cup short \cup rest |->
            IF k \in short THEN None
            ELSE IF k \in DOMAIN zipped THEN zipped[k]
            ELSE SubSeq(row, Len(names) + 1, Len(row))]

\* {h.lower(): h for h in (reader.fieldnames or []) if h}
HeaderMap(names) ==
    [k \in {Lower(names[i]) : i \in {j \in 1..Len(names) : names[j] # Empty}} |->
        names[Max({i \in 1..Len(names) : names[i] # Empty /\ Lower(names[i]) = k})]]

NoHeaderMap == << >>

-----------------------------------------------------------------------------
(* _get_cell, lines 171-185 *)

\* faulty variant: the configured name is looked up without lower()
_get_cell_NoLower(row, hmap, configured_name) ==
    LET key == Strip(OrEmpty(configured_name))
        actual == IF DOMAIN hmap # {}
                  THEN DictGetDefault(hmap, key, key)
                  ELSE key
    IN  IF key = Empty THEN Empty
        ELSE Strip(OrEmpty(DictGet(row, actual)))

_get_cell(row, hmap, configured_name) ==
    LET key == Strip(OrEmpty(configured_name))
        actual == IF DOMAIN hmap # {}
                  THEN DictGetDefault(hmap, Lower(key), key)
                  ELSE key
    IN  IF key = Empty THEN Empty
        ELSE Strip(OrEmpty(DictGet(row, actual)))

-----------------------------------------------------------------------------
(* _row_to_track, lines 188-235 *)

\* faulty variant: blank pieces are kept in the list
TrackArtists_KeepBlank(row, fields, hmap) ==
    LET artists_raw == _get_cell(row, hmap, fields["artists"])
        pieces == Split(artists_raw, ";")
        artists == [i \in 1..Len(pieces) |-> Strip(pieces[i])]
    IN  IF artists_raw # Empty /\ artists # << >>
        THEN [artists |-> artists] ELSE << >>

TrackArtists(row, fields, hmap) ==
    LET artists_raw == _get_cell(row, hmap, fields["artists"])
        artists == StripNonBlank(Split(artists_raw, ";"))
    IN  IF artists_raw # Empty /\ artists # << >>
        THEN [artists |-> artists] ELSE << >>

TrackOptional(row, fields, hmap, field) ==
    LET v == _get_cell(row, hmap, fields[field])
    IN  IF v # Empty THEN [f \in {field} |-> v] ELSE << >>

TrackIds(row, fields, hmap) ==
    LET spotify_id == _get_cell(row, hmap, fields["spotify_id"])
        tidal_id == _get_cell(row, hmap, fields["tidal_id"])
        ids == (IF spotify_id # Empty THEN [spotify |-> spotify_id] ELSE << >>)
               @@ (IF tidal_id # Empty THEN [tidal |-> tidal_id] ELSE << >>)
    IN  IF DOMAIN ids # {} THEN [id |-> ids] ELSE << >>

\* faulty variant: a row without a title is not skipped
_row_to_track_KeepUntitled(row, fields, hmap) ==
    [title |-> _get_cell(row, hmap, fields["title"])]
    @@ TrackArtists(row, fields, hmap)
    @@ TrackOptional(row, fields, hmap, "album")
    @@ TrackOptional(row, fields, hmap, "date")
    @@ TrackOptional(row, fields, hmap, "isrc")
    @@ TrackOptional(row, fields, hmap, "location")
    @@ TrackIds(row, fields, hmap)

_row_to_track(row, fields, hmap) ==
    LET title == _get_cell(row, hmap, fields["title"])
    IN  IF title = Empty THEN NoTrack
        ELSE [title |-> title]
             @@ TrackArtists(row, fields, hmap)
             @@ TrackOptional(row, fields, hmap, "album")
             @@ TrackOptional(row, fields, hmap, "date")
             @@ TrackOptional(row, fields, hmap, "isrc")
             @@ TrackOptional(row, fields, hmap, "location")
             @@ TrackIds(row, fields, hmap)

-----------------------------------------------------------------------------
(* String literals of the source *)

DefaultPlaylist == <<"p", "l", "a", "y", "l", "i", "s", "t">>
DefaultTitle == <<"T", "r", "a", "c", "k", " ", "N", "a", "m", "e">>
DefaultArtists == <<"A", "r", "t", "i", "s", "t", " ", "N", "a", "m", "e">>
DefaultAlbum == <<"A", "l", "b", "u", "m", " ", "N", "a", "m", "e">>
DefaultDate == <<"d", "a", "t", "e">>
DefaultIsrc == <<"i", "s", "r", "c">>
DefaultLocation == <<"l", "o", "c", "a", "t", "i", "o", "n">>
DefaultSpotifyId == <<"T", "r", "a", "c", "k", " ", "I", "D">>
DefaultTidalId == <<"t", "i", "d", "a", "l", "_", "i", "d">>

StarDotCsv == <<"*", ".", "c", "s", "v">>
StarStar == <<"*", "*">>

\* positional columns of a headerless row
ColumnsA == 8
ColumnsB == 9
MinColumnsB == 2

-----------------------------------------------------------------------------
(* settings_dict -> the values run() works with, lines 163-168 and 324-340 *)

_get_field_name(settings_dict, key, default) ==
    LET value == Strip(OrEmpty(DictGet(settings_dict, key)))
    IN  IF value # Empty THEN value ELSE default

FieldNames(settings_dict) ==
    [playlist   |-> _get_field_name(settings_dict, "col_playlist", DefaultPlaylist),
     title      |-> _get_field_name(settings_dict, "col_title", DefaultTitle),
     artists    |-> _get_field_name(settings_dict, "col_artists", DefaultArtists),
     album      |-> _get_field_name(settings_dict, "col_album", DefaultAlbum),
     date       |-> _get_field_name(settings_dict, "col_date", DefaultDate),
     isrc       |-> _get_field_name(settings_dict, "col_isrc", DefaultIsrc),
     location   |-> _get_field_name(settings_dict, "col_location", DefaultLocation),
     spotify_id |-> _get_field_name(settings_dict, "col_spotify_id", DefaultSpotifyId),
     tidal_id   |-> _get_field_name(settings_dict, "col_tidal_id", DefaultTidalId)]

\* (settings_dict.get(key) or default) for the radio settings, kept as words
RadioOr(settings_dict, key, default) ==
    IF key \in DOMAIN settings_dict THEN settings_dict[key] ELSE default

HasHeader(settings_dict) == RadioOr(settings_dict, "has_header", "Yes") = "Yes"

IncludeSubfolders(settings_dict) ==
    RadioOr(settings_dict, "include_subfolders", "No") = "Yes"

FromFileName(settings_dict) ==
    RadioOr(settings_dict, "playlist_source", "From file name") = "From file name"

-----------------------------------------------------------------------------
(* Paths: os.path.basename, os.path.splitext, glob.glob, sorted *)

\* code points of the characters that occur in the modelled paths
CodePoint ==
    [c \in Range(LowerLetters) |->
        96 + (CHOOSE i \in 1..Len(LowerLetters) : LowerLetters[i] = c)]
    @@ [c \in Range(UpperLetters) |->
        64 + (CHOOSE i \in 1..Len(UpperLetters) : UpperLetters[i] = c)]
    @@ [c \in {"."} |-> 46] @@ [c \in {"/"} |-> 47] @@ [c \in {" "} |-> 32]

Ord(c) == CodePoint[c]

\* a < b for Python strings
StrLess(a, b) ==
    \/ Len(a) < Len(b) /\ SubSeq(b, 1, Len(a)) = a
    \/ \E i \in 1..Min({Len(a), Len(b)}) :
          /\ SubSeq(a, 1, i - 1) = SubSeq(b, 1, i - 1)
          /\ Ord(a[i]) < Ord(b[i])

\* sorted(S) for a set of distinct strings
RECURSIVE Sorted(_)
Sorted(S) ==
    IF S = {} THEN << >>
    ELSE LET least == CHOOSE x \in S : \A y \in S \ {x} : StrLess(x, y)
         IN  <<least>> \o Sorted(S \ {least})

RECURSIVE Join(_, _)
Join(parts, sep) ==
    IF parts = << >> THEN Empty
    ELSE IF Len(parts) = 1 THEN parts[1]
    ELSE parts[1] \o <<sep>> \o Join(Tail(parts), sep)

Components(path) == Split(path, "/")

\* os.path.basename
BaseName(path) == Components(path)[Len(Components(path))]

\* os.path.splitext(name)[0]: cut at the last dot, unless only dots precede it
SplitExtRoot(name) ==
    LET dots == {i \in 1..Len(name) : name[i] = "."}
    IN  IF dots # {} /\ (\E j \in 1..(Max(dots) - 1) : name[j] # ".")
        THEN SubSeq(name, 1, Max(dots) - 1)
        ELSE name

\* fnmatch for patterns made of literal characters and "*"
RECURSIVE FnMatch(_, _)
FnMatch(name, pat) ==
    IF pat = Empty THEN name = Empty
    ELSE IF Head(pat) = "*"
         THEN \E k \in 0..Len(name) : FnMatch(SubSeq(name, k + 1, Len(name)), Tail(pat))
         ELSE name # Empty /\ Head(name) = Head(pat) /\ FnMatch(Tail(name), Tail(pat))

IsPrefix(p, s) == Len(p) <= Len(s) /\ SubSeq(s, 1, Len(p)) = p

\* os.scandir(dir): the names directly inside directory dir (a component list)
ListDir(files, dir) ==
    {Components(f)[Len(dir) + 1] :
        f \in {g \in files : IsPrefix(dir, Components(g)) /\ Len(Components(g)) > Len(dir)}}

\* glob's _glob1: the entries of dir that match pat; a name with a leading
\* dot is hidden from a pattern that does not start with a dot
Glob1(files, dir, pat) ==
    {n \in ListDir(files, dir) :
        /\ FnMatch(n, pat)
        /\ (Head(pat) = "." \/ Head(n) # ".")}

\* glob.glob(os.path.join(folder_path, "*.csv"))
GlobFlat(files) == {n : n \in Glob1(files, << >>, StarDotCsv)}

\* glob.glob(os.path.join(folder_path, "**", "*.csv")), recursive not set:
\* "**" is matched like "*" against the entries of folder_path only
GlobStarStar(files) ==
    UNION {{Join(<<d, n>>, "/") : n \in Glob1(files, <<d>>, StarDotCsv)} :
              d \in Glob1(files, << >>, StarStar)}

\* faulty variant: the result of glob.glob is returned without sorted()
_csv_files_in_folder_Unsorted(files, recurse) ==
    LET ordered == IF recurse THEN Sorted(GlobStarStar(files)) ELSE Sorted(GlobFlat(files))
    IN  [i \in 1..Len(ordered) |-> ordered[Len(ordered) + 1 - i]]

\* lines 290-295
_csv_files_in_folder(files, recurse) ==
    IF recurse THEN Sorted(GlobStarStar(files))
    ELSE Sorted(GlobFlat(files))

\* faulty variant: element [1] of os.path.splitext, the extension, is taken
PlaylistNameOf_Extension(path) ==
    SubSeq(BaseName(path), Len(SplitExtRoot(BaseName(path))) + 1, Len(BaseName(path)))

\* line 243
PlaylistNameOf(path) == SplitExtRoot(BaseName(path))

-----------------------------------------------------------------------------
(* Reading one row *)

\* line 259 / 392: "not row or all(not (cell or '').strip() for cell in row)"
IsBlankRow(row) ==
    row = << >> \/ \A i \in 1..Len(row) : Strip(OrEmpty(row[i])) = Empty

\* list(row) + ["" for _ in range(max(0, n - len(row)))]
Pad(row, n) == row \o [i \in 1..Max({0, n - Len(row)}) |-> Empty]

\* lines 264-273
RowDictA(padded, fields) ==
    DictOfPairs(<<fields["title"], fields["artists"], fields["album"],
                  fields["date"], fields["isrc"], fields["location"],
                  fields["spotify_id"], fields["tidal_id"]>>,
                SubSeq(padded, 1, ColumnsA))

\* lines 406-416
RowDictB(padded, fields) ==
    DictOfPairs(<<fields["playlist"], fields["title"], fields["artists"],
                  fields["album"], fields["date"], fields["isrc"],
                  fields["location"], fields["spotify_id"],
                  fields["tidal_id"]>>,
                SubSeq(padded, 1, ColumnsB))

\* One iteration of the loops of _read_one_csv_as_playlist (lines 251-255 and
\* 258-279): the track to append, or NoTrack.  csv.DictReader itself drops a
\* row that is [].
RowTrackA(row, with_header, names, hmap, fields) ==
    IF with_header
    THEN IF row = << >> THEN NoTrack
         ELSE _row_to_track(DictReaderRow(names, row), fields, hmap)
    ELSE IF IsBlankRow(row) THEN NoTrack
         ELSE _row_to_track(RowDictA(Pad(row, ColumnsA), fields),
                            fields, NoHeaderMap)

\* The playlist name of one Mode B row (lines 377-381 and 392-404), Empty when
\* the row is skipped before a track is built
RowPlaylistB(row, with_header, names, hmap, fields) ==
    IF with_header
    THEN IF row = << >> THEN Empty
         ELSE _get_cell(DictReaderRow(names, row), hmap,
                        fields["playlist"])
    ELSE IF IsBlankRow(row) \/ Len(row) < MinColumnsB THEN Empty
         ELSE Strip(OrEmpty(Pad(row, ColumnsB)[1]))

\* The track of one Mode B row (lines 383-385 and 406-420), or NoTrack
RowTrackB(row, with_header, names, hmap, fields) ==
    IF RowPlaylistB(row, with_header, names, hmap, fields) = Empty THEN NoTrack
    ELSE IF with_header
         THEN _row_to_track(DictReaderRow(names, row), fields, hmap)
         ELSE _row_to_track(RowDictB(Pad(row, ColumnsB), fields),
                            fields, NoHeaderMap)

\* faulty variant: playlists[playlist_name] = [track], the bucket is replaced
SetDefaultAppend_Overwrite(dict, name, track) ==
    IF \E i \in 1..Len(dict) : dict[i].name = name
    THEN [i \in 1..Len(dict) |->
            IF dict[i].name = name
            THEN [name |-> name, songs |-> <<track>>]
            ELSE dict[i]]
    ELSE Append(dict, [name |-> name, songs |-> <<track>>])

\* playlists.setdefault(playlist_name, []).append(track) on an insertion-ordered
\* dict, kept as a sequence of [name, songs] entries
SetDefaultAppend(dict, name, track) ==
    IF \E i \in 1..Len(dict) : dict[i].name = name
    THEN [i \in 1..Len(dict) |->
            IF dict[i].name = name
            THEN [name |-> name, songs |-> Append(dict[i].songs, track)]
            ELSE dict[i]]
    ELSE Append(dict, [name |-> name, songs |-> <<track>>])

\* faulty variant: the playlist is returned also when the file gave no track
AppendPlaylistA_AlsoEmpty(songs, playlist_name, file_tracks) ==
    Append(songs, [name |-> playlist_name, id |-> << >>, songs |-> file_tracks])

\* lines 281-287 followed by "if playlist: songs_dict.append(playlist)"
AppendPlaylistA(songs, playlist_name, file_tracks) ==
    IF file_tracks = << >> THEN songs
    ELSE Append(songs, [name |-> playlist_name, id |-> << >>, songs |-> file_tracks])

\* lines 424-431
AppendPlaylistsB(songs, dict) ==
    songs \o [i \in 1..Len(dict) |->
                [name |-> dict[i].name, id |-> << >>, songs |-> dict[i].songs]]

\* ultrasonics.tools.name_filter.filter for a regex "^literal": the playlists
\* whose name starts with the literal
NameFilter(songs, regex) ==
    SelectSeq(songs, LAMBDA p : IsPrefix(Tail(regex), p.name))

-----------------------------------------------------------------------------
(* Inputs of run() *)

ColumnSettings ==
    { << >>,
      [col_playlist |-> <<"p">>, col_title |-> <<"t">>, col_artists |-> <<"a">>],
      [col_playlist |-> <<"p">>, col_title |-> <<" ", "t", " ">>,
       col_artists |-> <<"t">>] }

RadioSettings ==
    [has_header : {"Yes", "No"},
     playlist_source : {"From file name", "From CSV column"},
     include_subfolders : {"No", "Yes"}]

\* kwargs["component"] and settings_dict["filter"], each read at one place
ComponentChoices == {"inputs", "outputs"}
FilterChoices == {Empty, <<" ">>, <<"^", "a">>}

SettingsChoices == {r @@ c : r \in RadioSettings, c \in ColumnSettings}

PathKinds == {"blank", "missing", "file", "dir"}

\* files that may exist below the configured folder
FsCandidates ==
    { <<"a", ".", "c", "s", "v">>,
      <<"b", ".", "c", "s", "v">>,
      <<"d", "/", "a", ".", "c", "s", "v">>,
      <<"e", "/", "a", ".", "c", "s", "v">> }

\* the configured path when it is a single file
SingleFilePath == <<"l", "/", "m", ".", "c", "s", "v">>

Layouts == {L \in SUBSET FsCandidates : Cardinality(L) <= MaxFiles}

\* header rows and data rows a csv.reader may yield
HeaderChoices ==
    { <<<<"p">>, <<"t">>>>,
      <<<<"P">>, <<"T">>, <<"a">>>> }

RowChoices ==
    { << >>,
      <<<<"m">>>>,
      <<<<"m">>, <<"x">>>>,
      <<<<"n">>, <<"y">>>>,
      <<<<"m">>, <<" ">>>>,
      <<Empty, <<"x">>>>,
      <<<<" ", "m">>, <<"y">>, <<"a", ";", "b">>>> }

-----------------------------------------------------------------------------
(* run(), lines 298-439 *)

has_header == HasHeader(settings)
include_subfolders == IncludeSubfolders(settings)

InFolder == path_kind = "dir"
ModeB == path_kind = "file" /\ ~FromFileName(settings)

\* rows read so far may be followed by one more
RowBudget == IF InFolder THEN MaxFolderRows ELSE MaxRows

Init ==
    /\ pc = "start"
    /\ settings \in SettingsChoices
    /\ path_kind \in PathKinds
    \* include_subfolders is used for a folder only (line 346)
    /\ path_kind # "dir" => ~IncludeSubfolders(settings)
    /\ fs \in IF path_kind = "dir" THEN Layouts ELSE {{}}
    /\ field_names = << >>
    /\ csv_paths = << >>
    /\ file_idx = 0
    /\ fieldnames = << >>
    /\ header_map = << >>
    /\ consumed = << >>
    /\ tracks = << >>
    /\ playlists = << >>
    /\ songs_dict = << >>
    /\ warnings = << >>
    /\ nread = 0
    /\ call = << >>
    /\ ret = << >>

\* lines 311-348: the checks, the settings, and the folder's file list
Start(component) ==
    /\ pc = "start"
    /\ IF component # "inputs" \/ path_kind \in {"blank", "missing"}
       THEN /\ pc' = "raised"
            /\ UNCHANGED <<field_names, csv_paths, file_idx, warnings>>
       ELSE /\ field_names' = FieldNames(settings)
            /\ IF InFolder
               THEN /\ csv_paths' = _csv_files_in_folder(fs, include_subfolders)
                    /\ file_idx' = 1
                    /\ warnings' = IF csv_paths' = << >>
                                   THEN <<[msg |-> "No CSV files found", path |-> Empty]>>
                                   ELSE warnings
                    /\ pc' = "next_file"
               ELSE /\ pc' = "open"
                    /\ UNCHANGED <<csv_paths, file_idx, warnings>>
    /\ UNCHANGED <<settings, path_kind, fs, fieldnames, header_map, consumed, tracks,
                   playlists, songs_dict, nread, call, ret>>

FileToOpen ==
    \/ pc = "open"
    \/ pc = "next_file" /\ file_idx <= Len(csv_paths)

\* open(path) and the reader's construction (lines 246-249, 371-374): with a
\* header the first row becomes reader.fieldnames
OpenFile ==
    /\ FileToOpen
    /\ \E names \in IF has_header THEN HeaderChoices ELSE {<< >>} :
          /\ fieldnames' = names
          /\ header_map' = HeaderMap(names)
    /\ consumed' = << >>
    /\ tracks' = << >>
    /\ playlists' = << >>
    /\ pc' = "read"
    /\ UNCHANGED <<settings, field_names, path_kind, fs, csv_paths, file_idx,
                   songs_dict, warnings, nread, call, ret>>

\* one iteration of "for row in reader" (lines 251-279, 376-422)
ReadRow ==
    /\ pc = "read"
    /\ nread < RowBudget
    /\ \E row \in RowChoices :
          /\ consumed' = Append(consumed, row)
          /\ IF ModeB
             THEN LET track == RowTrackB(row, has_header, fieldnames, header_map,
                                         field_names)
                      name == RowPlaylistB(row, has_header, fieldnames, header_map,
                                           field_names)
                  IN  /\ playlists' = IF track = NoTrack THEN playlists
                                      ELSE SetDefaultAppend(playlists, name, track)
                      /\ tracks' = tracks
             ELSE LET track == RowTrackA(row, has_header, fieldnames, header_map,
                                         field_names)
                  IN  /\ tracks' = IF track = NoTrack THEN tracks
                                   ELSE Append(tracks, track)
                      /\ playlists' = playlists
    /\ nread' = nread + 1
    /\ UNCHANGED <<pc, settings, field_names, path_kind, fs, csv_paths, file_idx,
                   fieldnames, header_map, songs_dict, warnings, call, ret>>

\* the path of the file being read, relative to the folder in folder mode
CurrentPath == IF InFolder THEN csv_paths[file_idx] ELSE SingleFilePath

\* the reader is exhausted: lines 281-287 with 354-355 or 364-365, or 424-431;
\* in the folder loop the locals of _read_one_csv_as_playlist end with the call
EndOfFile ==
    /\ pc = "read"
    /\ IF ModeB
       THEN songs_dict' = AppendPlaylistsB(songs_dict, playlists)
       ELSE songs_dict' = AppendPlaylistA(songs_dict, PlaylistNameOf(CurrentPath),
                                          tracks)
    /\ IF InFolder
       THEN /\ pc' = "next_file"
            /\ file_idx' = file_idx + 1
            /\ fieldnames' = << >>
            /\ header_map' = << >>
            /\ consumed' = << >>
            /\ tracks' = << >>
       ELSE /\ pc' = "built"
            /\ UNCHANGED <<file_idx, fieldnames, header_map, consumed, tracks>>
    /\ UNCHANGED <<settings, field_names, path_kind, fs, csv_paths, playlists,
                   warnings, nread, call, ret>>

\* faulty variant: no try/except around the read of a folder's file
AfterReadError_Uncaught(in_folder) == "raised"

\* where an exception raised while a file is opened or read leaves run():
\* caught per file in the folder loop (lines 350-357), not caught otherwise
AfterReadError(in_folder) == IF in_folder THEN "next_file" ELSE "raised"

\* open() or the reader raises (OSError, UnicodeDecodeError, csv.Error)
ReadError ==
    /\ FileToOpen \/ pc = "read"
    /\ pc' = AfterReadError(InFolder)
    /\ IF pc' = "next_file"
       THEN /\ warnings' = Append(warnings, [msg |-> "Skipping",
                                              path |-> csv_paths[file_idx]])
            /\ file_idx' = file_idx + 1
       ELSE UNCHANGED <<warnings, file_idx>>
    /\ fieldnames' = << >>
    /\ header_map' = << >>
    /\ consumed' = << >>
    /\ tracks' = << >>
    /\ playlists' = << >>
    /\ UNCHANGED <<settings, field_names, path_kind, fs, csv_paths, songs_dict,
                   nread, call, ret>>

\* the folder loop ends
EndOfFolder ==
    /\ pc = "next_file"
    /\ file_idx > Len(csv_paths)
    /\ pc' = "built"
    /\ UNCHANGED <<settings, field_names, path_kind, fs, csv_paths, file_idx,
                   fieldnames, header_map, consumed, tracks, playlists, songs_dict,
                   warnings, nread, call, ret>>

\* lines 433-439
Finish(filter) ==
    /\ pc = "built"
    /\ LET regex == Strip(OrEmpty(filter))
       IN  songs_dict' = IF regex # Empty THEN NameFilter(songs_dict, regex)
                         ELSE songs_dict
    /\ ret' = songs_dict'
    /\ pc' = "done"
    /\ UNCHANGED <<settings, field_names, path_kind, fs, csv_paths, file_idx,
                   fieldnames, header_map, consumed, tracks, playlists, warnings,
                   nread, call>>

Next ==
    \/ \E component \in ComponentChoices : Start(component)
    \/ OpenFile
    \/ ReadRow
    \/ EndOfFile
    \/ ReadError
    \/ EndOfFolder
    \/ \E filter \in FilterChoices : Finish(filter)

Spec == Init /\ [][Next]_vars

-----------------------------------------------------------------------------
(* Vocabulary of the properties *)

NamesOf(songs) == [i \in 1..Len(songs) |-> songs[i].name]

Distinct(seq) == \A i, j \in 1..Len(seq) : i # j => seq[i] # seq[j]

RECURSIVE TotalSongs(_)
TotalSongs(entries) ==
    IF entries = << >> THEN 0
    ELSE Len(Head(entries).songs) + TotalSongs(Tail(entries))

\* tracks accumulated from the file being read
Accumulated == IF ModeB THEN TotalSongs(playlists) ELSE Len(tracks)

\* the members of a set of numbers, ascending
Ascending(S) ==
    [j \in 1..Cardinality(S) |-> CHOOSE i \in S : Cardinality({x \in S : x < i}) = j - 1]

\* the trimmed cell at a position of a row, empty when the row is too short
CellAt(row, i) == IF i \in 1..Len(row) THEN Strip(row[i]) ELSE Empty

\* the columns whose header equals a configured name up to letter case
Matching(names, configured) ==
    {i \in 1..Len(names) :
        names[i] # Empty /\ Lower(names[i]) = Lower(Strip(configured))}

\* the cell a header row assigns to a configured name: that of the last
\* matching column
HeaderCell(names, row, configured) ==
    IF Matching(names, configured) = {} THEN Empty
    ELSE CellAt(row, Max(Matching(names, configured)))

\* positions of the logical fields in a headerless row
OrderA == <<"title", "artists", "album", "date", "isrc", "location",
            "spotify_id", "tidal_id">>

OrderB == <<"playlist">> \o OrderA

PositionOf(order, field) == CHOOSE i \in 1..Len(order) : order[i] = field

\* the last position whose configured name is the one configured for a field
LastPositionOf(order, field) ==
    Max({i \in 1..Len(order) : field_names[order[i]] = field_names[field]})

ReadStep == pc = "read" /\ pc' = "read" /\ Len(consumed') = Len(consumed) + 1

RowJustRead == consumed'[Len(consumed')]

EndOfFileStep == pc = "read" /\ pc' \in {"built", "next_file"} /\ warnings' = warnings

\* the title cell of a row: under the title header, or at the title position
TitleCell(row) ==
    IF has_header THEN HeaderCell(fieldnames, row, field_names["title"])
    ELSE IF ModeB THEN CellAt(row, PositionOf(OrderB, "title"))
    ELSE CellAt(row, PositionOf(OrderA, "title"))

\* the cell the decoded row holds under the configured title name
HeldTitleCell(row) ==
    IF has_header THEN HeaderCell(fieldnames, row, field_names["title"])
    ELSE IF ModeB THEN CellAt(row, LastPositionOf(OrderB, "title"))
    ELSE CellAt(row, LastPositionOf(OrderA, "title"))

\* the playlist name cell of a Mode B row
PlaylistCell(row) ==
    IF has_header THEN HeaderCell(fieldnames, row, field_names["playlist"])
    ELSE IF Len(row) >= MinColumnsB THEN CellAt(row, PositionOf(OrderB, "playlist"))
    ELSE Empty

-----------------------------------------------------------------------------
(* C1 *)

\* C1 as stated: in every mode a decoded row adds exactly one Track when its
\* title cell is non-empty after trimming and none otherwise, and the tracks of
\* a file that was read to its end all reach the output.
C1_Original ==
    [][/\ ReadStep =>
            Accumulated' = Accumulated + (IF TitleCell(RowJustRead) # Empty THEN 1 ELSE 0)
       /\ EndOfFileStep =>
            TotalSongs(songs_dict') = TotalSongs(songs_dict) + Accumulated]_vars

\* C1, amended: a decoded row adds exactly one Track when the cell the decoded
\* row holds under the configured title name is non-empty after trimming and,
\* in Mode B, its playlist name cell is non-empty after trimming too; it adds
\* none otherwise; the tracks of a file read to its end all reach the output.
C1_OneTrackPerTitledRow ==
    [][/\ ReadStep =>
            Accumulated' = Accumulated +
                (IF /\ HeldTitleCell(RowJustRead) # Empty
                    /\ ModeB => PlaylistCell(RowJustRead) # Empty
                 THEN 1 ELSE 0)
       /\ EndOfFileStep =>
            TotalSongs(songs_dict') = TotalSongs(songs_dict) + Accumulated]_vars

\* a file in which a titled row and a row with a blank title were read, and
\* the one track is in the output
C1_Witness ==
    /\ pc = "built"
    /\ ~InFolder
    /\ Len(consumed) = 2
    /\ HeldTitleCell(consumed[1]) # Empty
    /\ ModeB => PlaylistCell(consumed[1]) # Empty
    /\ Len(consumed[2]) >= 2
    /\ HeldTitleCell(consumed[2]) = Empty
    /\ TotalSongs(songs_dict) = 1

-----------------------------------------------------------------------------
(* C2 *)

\* C2: every playlist of the collection run() builds has at least one song,
\* whatever the path kind and the file contents.
C2_NoEmptyPlaylist ==
    \A i \in 1..Len(songs_dict) : songs_dict[i].songs # << >>

\* a folder of two files, one of which gave no track and no playlist
C2_Witness ==
    /\ pc = "built"
    /\ InFolder
    /\ Len(csv_paths) = 2
    /\ warnings = << >>
    /\ nread = 2
    /\ Len(songs_dict) = 1

-----------------------------------------------------------------------------
(* C3 *)

RowProducesB(row) ==
    RowTrackB(row, has_header, fieldnames, header_map, field_names) # NoTrack

ProducingB == {i \in 1..Len(consumed) : RowProducesB(consumed[i])}

NameAt(i) == RowPlaylistB(consumed[i], has_header, fieldnames, header_map, field_names)

TrackAt(i) == RowTrackB(consumed[i], has_header, fieldnames, header_map, field_names)

FirstRowOf(name) == Min({i \in ProducingB : NameAt(i) = name})

RowsOf(name) == Ascending({i \in ProducingB : NameAt(i) = name})

\* C3: in Mode B the playlists come in the order in which their trimmed names
\* first appear among the rows that produce a track, each name once, and the
\* songs of each are the tracks of its rows in row order.
C3_ModeBGrouping ==
    (ModeB /\ pc = "built") =>
        /\ Len(songs_dict) = Cardinality({NameAt(i) : i \in ProducingB})
        /\ \A k \in 1..Len(songs_dict) :
              /\ songs_dict[k].name \in {NameAt(i) : i \in ProducingB}
              /\ songs_dict[k].songs =
                    [j \in 1..Len(RowsOf(songs_dict[k].name)) |->
                        TrackAt(RowsOf(songs_dict[k].name)[j])]
        /\ \A k, l \in 1..Len(songs_dict) :
              k < l => FirstRowOf(songs_dict[k].name) < FirstRowOf(songs_dict[l].name)

\* rows of one playlist separated by a row of another
C3_Witness ==
    /\ ModeB
    /\ pc = "built"
    /\ Len(consumed) = 3
    /\ ProducingB = {1, 2, 3}
    /\ NameAt(1) = NameAt(3)
    /\ NameAt(1) # NameAt(2)
    /\ Len(songs_dict) = 2
    /\ Len(songs_dict[1].songs) = 2

-----------------------------------------------------------------------------
(* C4 *)

\* the base name of a ".csv" path without its extension
CsvBaseName(path) ==
    LET slashes == {i \in 1..Len(path) : path[i] = "/"}
        from == IF slashes = {} THEN 1 ELSE Max(slashes) + 1
    IN  SubSeq(path, from, Len(path) - 4)

\* the tracks of the rows read that give one, in row order
ValidTracksA ==
    LET decoded == [i \in 1..Len(consumed) |->
                       RowTrackA(consumed[i], has_header, fieldnames, header_map,
                                 field_names)]
    IN  SelectSeq(decoded, LAMBDA track : track # NoTrack)

\* C4: in folder mode every enumerated file is read in Mode A whatever
\* playlist_source says; the files are taken in ascending path order, and a
\* file read to its end adds one playlist named by its base name without
\* extension when it has a valid track, and nothing otherwise.
C4_FolderOnePlaylistPerFile ==
    [][/\ (InFolder /\ pc = "start") =>
            \A i, j \in 1..Len(csv_paths') :
                i < j => StrLess(csv_paths'[i], csv_paths'[j])
       /\ (InFolder /\ pc # "start") => csv_paths' = csv_paths
       /\ (InFolder /\ EndOfFileStep) =>
            /\ file_idx' = file_idx + 1
            /\ LET valid == ValidTracksA
               IN  songs_dict' =
                     IF valid = << >> THEN songs_dict
                     ELSE Append(songs_dict,
                                 [name |-> CsvBaseName(csv_paths[file_idx]),
                                  id |-> << >>,
                                  songs |-> valid])]_vars

\* two files of a folder, both with a valid row, with the playlist name taken
\* from a column by the setting
C4_Witness ==
    /\ InFolder
    /\ pc = "built"
    /\ ~FromFileName(settings)
    /\ Len(csv_paths) = 2
    /\ NamesOf(songs_dict) = <<CsvBaseName(csv_paths[1]), CsvBaseName(csv_paths[2])>>
    /\ songs_dict[1].name # songs_dict[2].name

-----------------------------------------------------------------------------
(* C5 *)

Skipped == {i \in 1..Len(warnings) : warnings[i].msg = "Skipping"}

\* C5: in folder mode run() never ends by raising once the files are listed; a
\* file whose read fails is skipped with the playlists so far unchanged and the
\* next file is taken; when the collection is built every file was taken.
C5_FolderSurvivesFileFailure ==
    /\ [][(InFolder /\ pc # "start") =>
            /\ pc' # "raised"
            /\ warnings' # warnings =>
                 /\ songs_dict' = songs_dict
                 /\ file_idx' = file_idx + 1
                 /\ pc' = "next_file"
                 /\ warnings' = Append(warnings, [msg |-> "Skipping",
                                                  path |-> csv_paths[file_idx]])]_vars
    /\ []((InFolder /\ pc \in {"built", "done"}) =>
            /\ file_idx = Len(csv_paths) + 1
            /\ Len(songs_dict) + Cardinality(Skipped) <= Len(csv_paths))

\* the second file failed after the first gave a playlist, and run() got to
\* the end with that playlist
C5_Witness ==
    /\ InFolder
    /\ pc = "done"
    /\ Len(csv_paths) = 2
    /\ Cardinality(Skipped) = 1
    /\ warnings[1].path = csv_paths[2]
    /\ Len(ret) = 1
    /\ ret[1].name = CsvBaseName(csv_paths[1])

-----------------------------------------------------------------------------
(* C10 *)

\* C10 as stated: the playlist names of the collection run() builds are
\* pairwise distinct for every input.
C10_Original == pc # "done" => Distinct(NamesOf(songs_dict))

\* C10, amended: the playlist names are pairwise distinct for a single file in
\* Mode A or Mode B and for a folder read without include_subfolders; with
\* include_subfolders files of the same base name in different subfolders give
\* playlists of the same name.
C10_DistinctNames ==
    (pc # "done" /\ ~(InFolder /\ include_subfolders)) => Distinct(NamesOf(songs_dict))

\* two playlists from the two files of a folder read without subfolders
C10_Witness ==
    /\ pc = "built"
    /\ InFolder
    /\ ~include_subfolders
    /\ Len(songs_dict) = 2

-----------------------------------------------------------------------------
(* Function-level specifications: one call of a function on drawn arguments *)

\* all strings over an alphabet up to a length
RECURSIVE StringsUpTo(_, _)
StringsUpTo(alphabet, n) ==
    IF n = 0 THEN {Empty}
    ELSE StringsUpTo(alphabet, n - 1)
         \cup {Append(w, c) : w \in StringsUpTo(alphabet, n - 1), c \in alphabet}

\* all sequences over a set up to a length
RECURSIVE SeqsUpTo(_, _)
SeqsUpTo(S, n) ==
    IF n = 0 THEN {<< >>}
    ELSE SeqsUpTo(S, n - 1) \cup {Append(w, x) : w \in SeqsUpTo(S, n - 1), x \in S}

NoRun ==
    /\ settings = << >>
    /\ field_names = << >>
    /\ path_kind = "file"
    /\ fs = {}
    /\ csv_paths = << >>
    /\ file_idx = 0
    /\ fieldnames = << >>
    /\ header_map = << >>
    /\ consumed = << >>
    /\ tracks = << >>
    /\ playlists = << >>
    /\ songs_dict = << >>
    /\ warnings = << >>
    /\ nread = 0

RunVars == <<settings, field_names, path_kind, fs, csv_paths, file_idx, fieldnames,
             header_map, consumed, tracks, playlists, songs_dict, warnings, nread>>

\* the subsets of a set with at most n members
RECURSIVE SubsetsUpTo(_, _)
SubsetsUpTo(S, n) ==
    IF n = 0 THEN {{}}
    ELSE SubsetsUpTo(S, n - 1) \cup {T \cup {x} : T \in SubsetsUpTo(S, n - 1), x \in S}

(* _get_cell on a row of csv.DictReader, as lines 248-252 call it *)

HeaderNameChoices == {Empty, <<"t">>, <<"T">>, <<"u">>}
CellChoices == {Empty, <<"x">>, <<" ", "X", " ">>}
ConfiguredChoices == {Empty, <<"t">>, <<"T">>, <<" ", "t">>, <<"v">>}

InitCell ==
    /\ pc = "call"
    /\ call \in [names : SeqsUpTo(HeaderNameChoices, MaxHeaders),
                 row : SeqsUpTo(CellChoices, MaxHeaders + 1),
                 configured : ConfiguredChoices]
    /\ ret = << >>
    /\ NoRun

CallGetCell ==
    /\ pc = "call"
    /\ ret' = _get_cell(DictReaderRow(call.names, call.row), HeaderMap(call.names),
                        call.configured)
    /\ pc' = "returned"
    /\ UNCHANGED call
    /\ UNCHANGED RunVars

SpecCell == InitCell /\ [][CallGetCell]_vars

(* _row_to_track on a row dict keyed by the default column names *)

TrackRows ==
    {<<title, artists, album, date, isrc, location, spotify_id, tidal_id>> :
        title \in {Empty, <<" ">>, <<" ", "x">>},
        artists \in StringsUpTo({"a", ";", " "}, MaxCellLen),
        album \in {Empty, <<" ">>, <<"l", " ">>},
        date \in {Empty, <<"d">>},
        isrc \in {Empty, <<"i">>},
        location \in {Empty, <<"o">>},
        spotify_id \in {Empty, <<"s">>},
        tidal_id \in {Empty, <<" ">>, <<"t">>}}

InitTrack ==
    /\ pc = "call"
    /\ call \in [row : TrackRows, fields : {FieldNames(<< >>)}]
    /\ ret = << >>
    /\ NoRun

CallRowToTrack ==
    /\ pc = "call"
    /\ ret' = _row_to_track(RowDictA(call.row, call.fields), call.fields, NoHeaderMap)
    /\ pc' = "returned"
    /\ UNCHANGED call
    /\ UNCHANGED RunVars

SpecTrack == InitTrack /\ [][CallRowToTrack]_vars

(* one headerless Mode A row, lines 258-279, under the configured names *)

\* a blank cell or a cell that names its position
PositionalCells(i) == {Empty, <<" ", LowerLetters[i]>>}

RECURSIVE PositionalRowsOfLen(_)
PositionalRowsOfLen(k) ==
    IF k = 0 THEN {<< >>}
    ELSE {Append(row, c) : row \in PositionalRowsOfLen(k - 1), c \in PositionalCells(k)}

PositionalRows == UNION {PositionalRowsOfLen(k) : k \in 1..ColumnsA}

InitPositional ==
    /\ pc = "call"
    /\ call \in [row : PositionalRows, fields : {FieldNames(c) : c \in ColumnSettings}]
    /\ ret = << >>
    /\ NoRun

CallPositionalRow ==
    /\ pc = "call"
    /\ ret' = RowTrackA(call.row, FALSE, << >>, NoHeaderMap, call.fields)
    /\ pc' = "returned"
    /\ UNCHANGED call
    /\ UNCHANGED RunVars

SpecPositional == InitPositional /\ [][CallPositionalRow]_vars

(* _csv_files_in_folder on a folder tree *)

FileNameChoices == { <<"a", ".", "c", "s", "v">>, <<"b", ".", "c", "s", "v">>, <<"c", ".", "t", "x", "t">>, <<".", "h", ".", "c", "s", "v">> }
DirNameChoices == {<<"d">>, <<"e">>}

RECURSIVE DirsOfDepth(_)
DirsOfDepth(n) ==
    IF n = 0 THEN {<< >>}
    ELSE {Append(d, x) : d \in DirsOfDepth(n - 1), x \in DirNameChoices}

TreePaths ==
    {Join(Append(d, f), "/") :
        d \in UNION {DirsOfDepth(n) : n \in 0..(MaxDepth - 1)}, f \in FileNameChoices}

InitGlob ==
    /\ pc = "call"
    /\ call \in [files : SubsetsUpTo(TreePaths, MaxFiles),
                 recurse : BOOLEAN]
    /\ ret = << >>
    /\ NoRun

CallCsvFilesInFolder ==
    /\ pc = "call"
    /\ ret' = _csv_files_in_folder(call.files, call.recurse)
    /\ pc' = "returned"
    /\ UNCHANGED call
    /\ UNCHANGED RunVars

SpecGlob == InitGlob /\ [][CallCsvFilesInFolder]_vars

-----------------------------------------------------------------------------
(* C6 *)

EndsWithCsv(path) ==
    Len(path) >= 4 /\ SubSeq(path, Len(path) - 3, Len(path)) = <<".", "c", "s", "v">>

IsAscending(paths) ==
    \A i, j \in 1..Len(paths) : i < j => StrLess(paths[i], paths[j])

\* C6: the file sequence of a folder is, sorted by path, every .csv file at
\* any depth below the folder when include_subfolders is set, and exactly the
\* .csv files directly inside the folder when it is not.
C6_Original ==
    pc = "returned" =>
        /\ Range(ret) = {f \in call.files :
                            /\ EndsWithCsv(f)
                            /\ call.recurse \/ Len(Components(f)) = 1}
        /\ IsAscending(ret)

-----------------------------------------------------------------------------
(* C7 *)

IsTrimmed(str) == str # Empty => (str[1] \notin Whitespace /\ str[Len(str)] \notin Whitespace)

\* the stretches of a cell between its ";" marks, blank ones left out, trimmed
Pieces(cell) ==
    LET marks == Ascending({0, Len(cell) + 1} \cup {i \in 1..Len(cell) : cell[i] = ";"})
        stretch(n) == SubSeq(cell, marks[n] + 1, marks[n + 1] - 1)
        kept == Ascending({n \in 1..(Len(marks) - 1) : Strip(stretch(n)) # Empty})
    IN  [j \in 1..Len(kept) |-> Strip(stretch(kept[j]))]

PlainFields == {"album", "date", "isrc", "location"}

\* the cell of a row of TrackRows that feeds a logical field
TrackCell(field) == call.row[PositionOf(OrderA, field)]

\* C7: a Track has a non-empty trimmed title; album, date, isrc and location
\* are present exactly when their cell is not blank, and then hold it trimmed;
\* artists, when present, is the non-empty list of the non-empty trimmed pieces
\* of the cell split on ";", in order; id, when present, is a non-empty mapping
\* with keys among spotify and tidal and non-empty values, and is absent when
\* both id cells are blank.
C7_TrackFields ==
    (pc = "returned" /\ ret # NoTrack) =>
        /\ DOMAIN ret \subseteq {"title", "artists", "id"} \cup PlainFields
        /\ "title" \in DOMAIN ret
        /\ ret["title"] # Empty
        /\ IsTrimmed(ret["title"])
        /\ \A f \in PlainFields :
              /\ f \in DOMAIN ret <=> Strip(TrackCell(f)) # Empty
              /\ f \in DOMAIN ret => ret[f] = Strip(TrackCell(f))
        /\ "artists" \in DOMAIN ret =>
              /\ ret["artists"] # << >>
              /\ ret["artists"] = Pieces(TrackCell("artists"))
              /\ \A i \in 1..Len(ret["artists"]) :
                    /\ ret["artists"][i] # Empty
                    /\ IsTrimmed(ret["artists"][i])
                    /\ ";" \notin Range(ret["artists"][i])
        /\ "id" \in DOMAIN ret =>
              /\ DOMAIN ret["id"] # {}
              /\ DOMAIN ret["id"] \subseteq {"spotify", "tidal"}
              /\ \A k \in DOMAIN ret["id"] : ret["id"][k] # Empty
        /\ (Strip(TrackCell("spotify_id")) = Empty /\ Strip(TrackCell("tidal_id")) = Empty)
              => "id" \notin DOMAIN ret

\* a Track with one artist out of a cell with a blank piece, one id, and a
\* blank album left out
C7_Witness ==
    /\ pc = "returned"
    /\ ret # NoTrack
    /\ TrackCell("artists") = <<";", "a", " ">>
    /\ ret["artists"] = <<<<"a">>>>
    /\ TrackCell("album") = <<" ">>
    /\ "album" \notin DOMAIN ret
    /\ "id" \in DOMAIN ret
    /\ DOMAIN ret["id"] = {"spotify"}

-----------------------------------------------------------------------------
(* C8 *)

\* C8 as stated: when a header equals the configured name up to letter case,
\* _get_cell returns the trimmed cell of that column; when none does, the
\* configured name itself is the key and the result is empty when it is absent.
C8_Original ==
    pc = "returned" =>
        /\ \A i \in Matching(call.names, call.configured) : ret = CellAt(call.row, i)
        /\ (Matching(call.names, call.configured) = {}
            /\ Strip(call.configured) \notin Range(call.names)) => ret = Empty

\* C8, amended: _get_cell returns the trimmed cell, letter case kept, of the
\* last column whose header equals the configured name up to letter case (the
\* empty string when the row has no cell there), and the empty string when no
\* header does.
C8_LastMatchingHeader ==
    pc = "returned" => ret = HeaderCell(call.names, call.row, call.configured)

\* a header that differs from the configured name in letter case only, over a
\* cell with capitals and blanks around it
C8_Witness ==
    /\ pc = "returned"
    /\ call.names = <<<<"u">>, <<"T">>>>
    /\ call.configured = <<" ", "t">>
    /\ call.row = <<<<"x">>, <<" ", "X", " ">>>>
    /\ ret = <<"X">>

-----------------------------------------------------------------------------
(* C9 *)

\* C9: in headerless Mode A, whatever the configured column names, a row of
\* 1 to 8 cells with a non-blank first cell gives a Track whose title is the
\* trimmed first cell and whose other fields come from the cells at their
\* positions, a field being absent when the row has no cell there.
C9_Original ==
    (pc = "returned" /\ CellAt(call.row, 1) # Empty) =>
        /\ ret # NoTrack
        /\ ret["title"] = CellAt(call.row, PositionOf(OrderA, "title"))
        /\ \A f \in PlainFields :
              /\ f \in DOMAIN ret <=> CellAt(call.row, PositionOf(OrderA, f)) # Empty
              /\ f \in DOMAIN ret => ret[f] = CellAt(call.row, PositionOf(OrderA, f))
        /\ "artists" \in DOMAIN ret
              <=> Pieces(CellAt(call.row, PositionOf(OrderA, "artists"))) # << >>
        /\ "artists" \in DOMAIN ret
              => ret["artists"] = Pieces(CellAt(call.row, PositionOf(OrderA, "artists")))
        /\ "id" \in DOMAIN ret
              <=> (\/ CellAt(call.row, PositionOf(OrderA, "spotify_id")) # Empty
                   \/ CellAt(call.row, PositionOf(OrderA, "tidal_id")) # Empty)
        /\ "id" \in DOMAIN ret =>
              /\ "spotify" \in DOMAIN ret["id"]
                    <=> CellAt(call.row, PositionOf(OrderA, "spotify_id")) # Empty
              /\ "spotify" \in DOMAIN ret["id"]
                    => ret["id"]["spotify"] = CellAt(call.row, PositionOf(OrderA, "spotify_id"))
              /\ "tidal" \in DOMAIN ret["id"]
                    <=> CellAt(call.row, PositionOf(OrderA, "tidal_id")) # Empty
              /\ "tidal" \in DOMAIN ret["id"]
                    => ret["id"]["tidal"] = CellAt(call.row, PositionOf(OrderA, "tidal_id"))

====
